---- MODULE Spec2Model ----
(***************************************************************************)
(* Model of cookbook/06-PluginAndParser/TensorFlow1-LayerNorm/             *)
(* LayerNormPlugin.cu: the kernel layerNormKernelV1 and the plugin and     *)
(* creator classes around it.                                              *)
(*                                                                         *)
(* Scaling.  The kernel hardcodes three related literals: 256 (elements    *)
(* per vector), 128 (threads per block, slots of temp[]) and 64 (first     *)
(* reduction stride).  They are 2^(k+1), 2^k and 2^(k-1) for k = 7.  The   *)
(* model keeps the relation and takes k from the variable logThreads, so   *)
(* that every interleaving of a block can be enumerated for small k.       *)
(*                                                                         *)
(* Arithmetic.  float values are modelled as exact fixed-point numbers;    *)
(* an indeterminate value (uninitialised shared memory, an out-of-range    *)
(* read) is kept apart.  Rounding and overflow of single precision are     *)
(* outside the model.  The product with rsqrtf keeps the IEEE special      *)
(* cases (rsqrtf(0) = +inf, 0 * inf = NaN).                                *)
(***************************************************************************)
EXTENDS Integers, Sequences, FiniteSets, TLC

VARIABLES
    \* ---- device state of one kernel launch
    logThreads,   \* k: blockDim.x = 2^k (128 in the source)
    numBlocks,    \* gridDim.x of the launch
    epsilon,      \* kernel argument epsilon (rational)
    pInput,       \* global memory: offset -> rational
    pOutput,      \* global memory: offset -> float result record
    wcount,       \* history: number of writes each output offset received
    temp,         \* __shared__ float temp[128], one array per block
    th,           \* per block, per thread: registers and program counter
    acc,          \* history: accesses to temp[] since the block's last barrier
    \* ---- host state of the plugin library
    instances,    \* the LayerNormPlugin objects constructed so far (their m_)
    blobs,        \* the host buffers serialize has written
    call          \* the call of the library in progress: arguments and result

kvars == <<logThreads, numBlocks, epsilon, pInput, pOutput, wcount, temp, th, acc>>
hvars == <<instances, blobs, call>>
vars == <<kvars, hvars>>

-----------------------------------------------------------------------------
\* Bounds of the model.

\* Largest k of a single-block launch (2^k threads, vectors of 2^(k+1)).
MaxLog == 2
\* Largest grid of a launch with two threads per block.
MaxBlocks == 2
\* Plugin objects constructed, buffers serialized, fields passed to
\* createPlugin, and the largest rank of an input tensor.
MaxInstances == 2
MaxBlobs == 1
MaxFields == 2
MaxRank == 3

-----------------------------------------------------------------------------
\* Exact fixed-point arithmetic standing for float arithmetic.  A value is
\* [ok, v]: v counts units of 1 / Scale, Scale = KWidth^2, the grid on which
\* the sums, the mean, the squared deviations and the variance of integer
\* inputs are all exact (W * sum(x^2) - sum(x)^2 over W^2 is the variance).
\* ok = FALSE marks an indeterminate value; so does a result off the grid.

Scale == (2 * (2 ^ logThreads)) ^ 2

Garbage == [ok |-> FALSE, v |-> 0]

Fx(units) == [ok |-> TRUE, v |-> units]

R(n) == Fx(n * Scale)

IsGarbage(a) == ~a.ok

RAdd(a, b) == IF a.ok /\ b.ok THEN Fx(a.v + b.v) ELSE Garbage

RSub(a, b) == IF a.ok /\ b.ok THEN Fx(a.v - b.v) ELSE Garbage

RMul(a, b) ==
    IF a.ok /\ b.ok /\ (a.v * b.v) % Scale = 0
    THEN Fx((a.v * b.v) \div Scale)
    ELSE Garbage

\* a / n for an integer literal n (the source divides by 256).
RDivInt(a, n) ==
    IF a.ok /\ n # 0 /\ a.v % n = 0 THEN Fx(a.v \div n) ELSE Garbage

\* The float d * rsqrtf(a): a record, so that the IEEE special cases stay
\* apart.  rsqrtf(a) is NaN for a < 0 and +inf for a = 0; 0 * inf is NaN.
FNum(d, a) == [kind |-> "num", dev |-> d, arg |-> a]
FZero == FNum(R(0), R(1))
FNaN == [kind |-> "nan", dev |-> R(0), arg |-> R(0)]
FPosInf == [kind |-> "+inf", dev |-> R(0), arg |-> R(0)]
FNegInf == [kind |-> "-inf", dev |-> R(0), arg |-> R(0)]
FGarbage == [kind |-> "garbage", dev |-> R(0), arg |-> R(0)]
FUnwritten == [kind |-> "unwritten", dev |-> R(0), arg |-> R(0)]

MulRsqrt(d, a) ==
    IF IsGarbage(d) \/ IsGarbage(a) THEN FGarbage
    ELSE IF a.v < 0 THEN FNaN
    ELSE IF a.v = 0 THEN
        (IF d.v = 0 THEN FNaN ELSE IF d.v > 0 THEN FPosInf ELSE FNegInf)
    ELSE IF d.v = 0 THEN FZero
    ELSE FNum(d, a)

-----------------------------------------------------------------------------
\* layerNormKernelV1: the literals of the kernel, scaled by logThreads.

\* 128: blockDim.x of the launch and the number of slots of temp[].
KThreads == 2 ^ logThreads
\* 256: elements per vector (the index stride per block and the divisor).
KWidth == 2 * KThreads
\* 64: the first stride of both reduction loops.
KStride0 == KThreads \div 2

Blocks == 0 .. (numBlocks - 1)
Threads == 0 .. (KThreads - 1)
Slots == 0 .. (KThreads - 1)
Offsets == 0 .. (numBlocks * KWidth - 1)

\* Faulty variant of Index: the block stride taken as the thread count.
IndexBlockStrideThreads(b, tx) == b * KThreads + tx

\* index = blockIdx.x * 256 + threadIdx.x
Index(b, tx) == b * KWidth + tx
\* the second element a thread owns: index + 128
Index1(b, tx) == Index(b, tx) + KThreads

\* A global load; outside the allocation the value is indeterminate.
GRead(mem, off) == IF off \in DOMAIN mem THEN mem[off] ELSE Garbage
\* A global store; a store outside the allocation leaves the tensor alone.
GWrite(mem, off, v) == IF off \in DOMAIN mem THEN [mem EXCEPT ![off] = v] ELSE mem
\* A load of temp[i]; outside the array the value is indeterminate.
SRead(tmp, i) == IF i \in DOMAIN tmp THEN tmp[i] ELSE Garbage

BarrierPcs == {"L29", "L37", "L40", "L43", "L51"}

NoAccess == [r |-> {}, w |-> {}]
NoteR(a, slot, tx) ==
    IF slot \in DOMAIN a THEN [a EXCEPT ![slot].r = @ \cup {tx}] ELSE a
NoteW(a, slot, tx) ==
    IF slot \in DOMAIN a THEN [a EXCEPT ![slot].w = @ \cup {tx}] ELSE a

\* for (stride = ..; stride >= 1; ..): the loop test, to the body or past it.
LoopTest(s, body, exit) ==
    IF s >= 1 THEN [pc |-> body, stride |-> s] ELSE [pc |-> exit, stride |-> 0]

\* Where a thread continues once the barrier it waits at lets it go.
Resume(pc, stride) ==
    CASE pc = "L29" -> LoopTest(KStride0, "L33", "L39")
      [] pc = "L37" -> LoopTest(stride \div 2, "L33", "L39")
      [] pc = "L40" -> [pc |-> "L42", stride |-> 0]
      [] pc = "L43" -> LoopTest(KStride0, "L47", "L53")
      [] pc = "L51" -> LoopTest(stride \div 2, "L47", "L53")
      [] OTHER -> [pc |-> pc, stride |-> stride]

\* if (tx < stride): the threads that add in one reduction step.
ReduceActive(tx, stride) == tx < stride

\* Faulty variant of ReachesLoopBarrier: the barrier moved inside "if (tx < stride)".
BarrierInsideBranch(tx, stride) == tx < stride

\* The __syncthreads() of a reduction loop stands after the if, not in it:
\* every thread reaches it, whatever tx and stride.
ReachesLoopBarrier(tx, stride) == TRUE

\* Faulty variant of PcAfterMean: the barrier of line 40 left out.
PcAfterMeanNoBarrier == "L42"

\* float mean = temp[0] / 256; then __syncthreads() on line 40.
PcAfterMean == "L40"

\* Lines 22-28: load both elements, store their sum in temp[tx].
Load(b, tx) ==
    /\ th[b][tx].pc = "L26"
    /\ LET i  == Index(b, tx)
           v0 == GRead(pInput, i)
           v1 == GRead(pInput, Index1(b, tx))
       IN  /\ th' = [th EXCEPT ![b][tx] =
                        [@ EXCEPT !.pc = "L29", !.value0 = v0, !.value1 = v1,
                                  !.rd = @ \cup {i, Index1(b, tx)}]]
           /\ temp' = [temp EXCEPT ![b] =
                        IF tx \in DOMAIN @ THEN [@ EXCEPT ![tx] = RAdd(v0, v1)] ELSE @]
           /\ acc' = [acc EXCEPT ![b] = NoteW(@, tx, tx)]
    /\ UNCHANGED <<logThreads, numBlocks, epsilon, pInput, pOutput, wcount, hvars>>

\* One pass of "if (tx < stride) temp[tx] += temp[tx + stride];" up to the
\* barrier that follows it (lines 33-37 and 47-51).
ReduceStep(b, tx, here, bar) ==
    /\ th[b][tx].pc = here
    /\ LET s == th[b][tx].stride
           after == IF ReachesLoopBarrier(tx, s)
                    THEN [pc |-> bar, stride |-> s]
                    ELSE Resume(bar, s)
       IN  /\ th' = [th EXCEPT ![b][tx] =
                        [@ EXCEPT !.pc = after.pc, !.stride = after.stride]]
           /\ IF ReduceActive(tx, s)
              THEN /\ temp' = [temp EXCEPT ![b] =
                        IF tx \in DOMAIN @
                        THEN [@ EXCEPT ![tx] = RAdd(SRead(temp[b], tx), SRead(temp[b], tx + s))]
                        ELSE @]
                   /\ acc' = [acc EXCEPT ![b] = NoteW(NoteR(NoteR(@, tx + s, tx), tx, tx), tx, tx)]
              ELSE UNCHANGED <<temp, acc>>
    /\ UNCHANGED <<logThreads, numBlocks, epsilon, pInput, pOutput, wcount, hvars>>

\* Lines 31-38: the reduction of the partial sums.
Reduce1(b, tx) == ReduceStep(b, tx, "L33", "L37")

\* Line 39: float mean = temp[0] / 256.
Mean(b, tx) ==
    /\ th[b][tx].pc = "L39"
    /\ th' = [th EXCEPT ![b][tx] =
                [@ EXCEPT !.pc = PcAfterMean, !.mean = RDivInt(SRead(temp[b], 0), KWidth)]]
    /\ acc' = [acc EXCEPT ![b] = NoteR(@, 0, tx)]
    /\ UNCHANGED <<logThreads, numBlocks, epsilon, pInput, pOutput, wcount, temp, hvars>>

\* Faulty variant of SqDev: the second element's deviation forgotten.
SqDevFirstOnly(v0, v1, mean) == RMul(RSub(v0, mean), RSub(v0, mean))

\* Line 42: temp[tx] = (value0 - mean)^2 + (value1 - mean)^2.
SqDev(v0, v1, mean) ==
    RAdd(RMul(RSub(v0, mean), RSub(v0, mean)), RMul(RSub(v1, mean), RSub(v1, mean)))

Dev(b, tx) ==
    /\ th[b][tx].pc = "L42"
    /\ th' = [th EXCEPT ![b][tx] = [@ EXCEPT !.pc = "L43"]]
    /\ temp' = [temp EXCEPT ![b] =
                IF tx \in DOMAIN @
                THEN [@ EXCEPT ![tx] = SqDev(th[b][tx].value0, th[b][tx].value1, th[b][tx].mean)]
                ELSE @]
    /\ acc' = [acc EXCEPT ![b] = NoteW(@, tx, tx)]
    /\ UNCHANGED <<logThreads, numBlocks, epsilon, pInput, pOutput, wcount, hvars>>

\* Lines 45-52: the reduction of the squared deviations.
Reduce2(b, tx) == ReduceStep(b, tx, "L47", "L51")

\* (value - mean) * rsqrtf(var + epsilon)
OutValue(v, mean, var, eps) == MulRsqrt(RSub(v, mean), RAdd(var, eps))

\* Lines 53-56: float var = temp[0] / 256, then both stores to pOutput.
Out(b, tx) ==
    /\ th[b][tx].pc = "L53"
    /\ LET t   == th[b][tx]
           var == RDivInt(SRead(temp[b], 0), KWidth)
           i0  == Index(b, tx)
           i1  == Index1(b, tx)
           bump(c, off) == IF off \in DOMAIN c THEN [c EXCEPT ![off] = @ + 1] ELSE c
       IN  /\ th' = [th EXCEPT ![b][tx] =
                        [@ EXCEPT !.pc = "done", !.var = var, !.wr = @ \cup {i0, i1}]]
           /\ pOutput' = GWrite(GWrite(pOutput, i0, OutValue(t.value0, t.mean, var, epsilon)),
                                i1, OutValue(t.value1, t.mean, var, epsilon))
           /\ wcount' = bump(bump(wcount, i0), i1)
    /\ acc' = [acc EXCEPT ![b] = NoteR(@, 0, tx)]
    /\ UNCHANGED <<logThreads, numBlocks, epsilon, pInput, temp, hvars>>

\* __syncthreads(): once every thread of the block waits at a barrier, all of
\* them go on.  The hardware counts arrivals; it does not tell one
\* __syncthreads() of the program from another.
BarrierRelease(b) ==
    /\ \A tx \in Threads : th[b][tx].pc \in BarrierPcs
    /\ th' = [th EXCEPT ![b] =
                [tx \in Threads |->
                    LET r == Resume(th[b][tx].pc, th[b][tx].stride)
                    IN  [th[b][tx] EXCEPT !.pc = r.pc, !.stride = r.stride]]]
    /\ acc' = [acc EXCEPT ![b] = [s \in Slots |-> NoAccess]]
    /\ UNCHANGED <<logThreads, numBlocks, epsilon, pInput, pOutput, wcount, temp, hvars>>

-----------------------------------------------------------------------------
\* The launches the kernel specification starts from: a tensor of n vectors
\* of KWidth elements, launched as n blocks of KThreads threads.

\* Grid shapes: one block of up to 2^MaxLog threads, or up to MaxBlocks
\* blocks of two threads.
LaunchShapes ==
    {<<k, 1>> : k \in 1 .. MaxLog} \cup {<<1, n>> : n \in 1 .. MaxBlocks}

Ramp(size) == [i \in 0 .. (size - 1) |-> R(2 * i - 5)]
Const(size, c) == [i \in 0 .. (size - 1) |-> R(c)]
Spike(size, p) == [i \in 0 .. (size - 1) |-> R(IF i = p THEN 4 ELSE 1)]

\* Tensors of `size` elements in vectors of `width`: a ramp (all elements
\* differ), two constant tensors, and a spike in vector 0 at the first and
\* last place of each half and at the first reduction stride.
InputTensors(size, width) ==
    {Ramp(size), Const(size, 0), Const(size, 3)}
        \cup {Spike(size, p) :
                p \in {0, width \div 4, width \div 2 - 1, width \div 2, width - 1}}

\* epsilon: zero, and one positive value (the smallest of the grid).
EpsValues == {Fx(0), Fx(1)}

NoThread ==
    [pc |-> "L26", stride |-> 0, value0 |-> Garbage, value1 |-> Garbage,
     mean |-> Garbage, var |-> Garbage, rd |-> {}, wr |-> {}]

NoCall ==
    [op |-> "none", inst |-> 0, blob |-> 0, fields |-> <<>>, epsBefore |-> 0,
     pos |-> 0, inOut |-> <<>>, accepted |-> FALSE,
     dims |-> <<>>, nBlock |-> 0, launchOk |-> TRUE, epsArg |-> 0, ret |-> 0]

HostIdle ==
    /\ instances = <<>>
    /\ blobs = <<>>
    /\ call = NoCall

KernelInit ==
    /\ \E shape \in LaunchShapes :
        /\ logThreads = shape[1]
        /\ numBlocks = shape[2]
        /\ pInput \in InputTensors(shape[2] * 2 * (2 ^ shape[1]), 2 * (2 ^ shape[1]))
    /\ epsilon \in EpsValues
    /\ pOutput = [i \in Offsets |-> FUnwritten]
    /\ wcount = [i \in Offsets |-> 0]
    /\ temp = [b \in Blocks |-> [s \in Slots |-> Garbage]]
    /\ th = [b \in Blocks |-> [tx \in Threads |-> NoThread]]
    /\ acc = [b \in Blocks |-> [s \in Slots |-> NoAccess]]
    /\ HostIdle

KernelNext ==
    \/ \E b \in Blocks : BarrierRelease(b)
    \/ \E b \in Blocks : \E tx \in Threads : Load(b, tx)
    \/ \E b \in Blocks : \E tx \in Threads : Reduce1(b, tx)
    \/ \E b \in Blocks : \E tx \in Threads : Mean(b, tx)
    \/ \E b \in Blocks : \E tx \in Threads : Dev(b, tx)
    \/ \E b \in Blocks : \E tx \in Threads : Reduce2(b, tx)
    \/ \E b \in Blocks : \E tx \in Threads : Out(b, tx)

SpecKernel == KernelInit /\ [][KernelNext]_vars

\* Threads of a launched grid keep being scheduled until they exit.
SpecKernelFair == SpecKernel /\ WF_vars(KernelNext)

-----------------------------------------------------------------------------
\* class LayerNormPlugin and class LayerNormPluginV1Creator.  A float held by
\* the host is modelled by its 32 bits (an integer), so that copying bytes
\* and reading them back are conversions the round trip depends on.

\* float epsilon = 1.0e-5f: the bits 0x3727C5AC.
DefaultEpsilonBits == 925353388
\* sizeof(m_): the struct holds one float.
SizeofM == 4
\* getNbOutputs() returns 1.
GetNbOutputs == 1
\* The operator has one input: enqueue and getOutputDimensions read inputs[0].
NbInputs == 1

\* The object representation of a float on the (little-endian) host.
BytesOfFloat(bits) ==
    <<bits % 256, (bits \div 256) % 256, (bits \div 65536) % 256, (bits \div 16777216) % 256>>

\* The float whose object representation starts the byte sequence.
FloatOfBytes(bytes) ==
    bytes[1] + 256 * bytes[2] + 65536 * bytes[3] + 16777216 * bytes[4]

\* Faulty variant of Memcpy: one byte short.
MemcpyShort(dst, src, n) ==
    [i \in 1 .. Len(dst) |-> IF i <= n - 1 THEN src[i] ELSE dst[i]]

\* memcpy(dst, src, n) on byte sequences: the first n bytes of dst replaced.
Memcpy(dst, src, n) ==
    [i \in 1 .. Len(dst) |-> IF i <= n THEN src[i] ELSE dst[i]]

\* A buffer of n bytes as the host hands it over, not yet written.
FreshBuffer(n) == [i \in 1 .. n |-> 170]

\* LayerNormPlugin(name, epsilon): m_.epsilon = epsilon.
NewPlugin(eps) == [epsilon |-> eps]

\* LayerNormPlugin(name, buffer, length): memcpy(&m_, buffer, sizeof(m_)).
NewPluginFromBuffer(buffer) ==
    [epsilon |-> FloatOfBytes(Memcpy(FreshBuffer(SizeofM), buffer, SizeofM))]

\* getSerializationSize(): sizeof(m_).
GetSerializationSize == SizeofM

\* Faulty variant of FieldRecognised: every field taken for epsilon.
FieldAlwaysRecognised(name) == TRUE

\* parameterMap.find(name) != parameterMap.end(), the map holding "epsilon".
FieldRecognised(name) == name \in {"epsilon"}

\* The loop of createPlugin over fc->fields, from field i on.
RECURSIVE CreateEpsilon(_, _, _)
CreateEpsilon(fields, i, eps) ==
    IF i > Len(fields) THEN eps
    ELSE CreateEpsilon(fields, i + 1,
            IF FieldRecognised(fields[i].name)
            THEN FloatOfBytes(fields[i].data)
            ELSE eps)

\* The fields a caller passes: named "epsilon" or otherwise, each with the
\* four bytes of a float32 (0.0f or 1.0f) as its data.
FieldChoices ==
    {[name |-> n, data |-> BytesOfFloat(e)] : n \in {"epsilon", "gamma"}, e \in {0, 1065353216}}

RECURSIVE SeqsUpTo(_, _)
SeqsUpTo(S, n) ==
    IF n = 0 THEN {<<>>}
    ELSE LET shorter == SeqsUpTo(S, n - 1)
         IN  shorter \cup {Append(q, x) : q \in shorter, x \in S}

FieldLists == SeqsUpTo(FieldChoices, MaxFields)

\* LayerNormPluginV1Creator::createPlugin(name, fc).
CreatePlugin(fields) ==
    /\ Len(instances) < MaxInstances
    /\ instances' = Append(instances, NewPlugin(CreateEpsilon(fields, 1, DefaultEpsilonBits)))
    /\ call' = [NoCall EXCEPT !.op = "createPlugin", !.fields = fields,
                              !.inst = Len(instances) + 1]
    /\ UNCHANGED <<blobs, kvars>>

\* The host asks getSerializationSize(), allocates, and calls serialize(buffer):
\* memcpy(buffer, &m_, sizeof(m_)).
Serialize(i) ==
    /\ Len(blobs) < MaxBlobs
    /\ blobs' = Append(blobs,
                    [bytes |-> Memcpy(FreshBuffer(GetSerializationSize),
                                      BytesOfFloat(instances[i].epsilon), SizeofM),
                     by |-> i])
    /\ call' = [NoCall EXCEPT !.op = "serialize", !.inst = i, !.blob = Len(blobs) + 1,
                              !.epsBefore = instances[i].epsilon]
    /\ UNCHANGED <<instances, kvars>>

\* LayerNormPluginV1Creator::deserializePlugin(name, serialData, serialLength).
DeserializePlugin(k) ==
    /\ Len(instances) < MaxInstances
    /\ instances' = Append(instances, NewPluginFromBuffer(blobs[k].bytes))
    /\ call' = [NoCall EXCEPT !.op = "deserializePlugin", !.blob = k,
                              !.inst = Len(instances) + 1]
    /\ UNCHANGED <<blobs, kvars>>

\* clone(): new LayerNormPlugin(name_, &m_, sizeof(m_)).
Clone(i) ==
    /\ Len(instances) < MaxInstances
    /\ instances' = Append(instances, NewPluginFromBuffer(BytesOfFloat(instances[i].epsilon)))
    /\ call' = [NoCall EXCEPT !.op = "clone", !.inst = Len(instances) + 1,
                              !.epsBefore = instances[i].epsilon]
    /\ UNCHANGED <<blobs, kvars>>

\* Tensor descriptors the builder may propose.
Descs == [type : {"kFLOAT", "kHALF"}, format : {"kLINEAR", "kCHW32"}]

\* Faulty variant of SupportsFormat: position 1 compared by type only.
SupportsFormatTypeOnly(pos, inOut) ==
    CASE pos = 0 -> inOut[1].type = "kFLOAT" /\ inOut[1].format = "kLINEAR"
      [] pos = 1 -> inOut[2].type = inOut[1].type
      [] OTHER -> FALSE

\* The switch of supportsFormatCombination (inOut is 1-based here).
SupportsFormat(pos, inOut) ==
    CASE pos = 0 -> inOut[1].type = "kFLOAT" /\ inOut[1].format = "kLINEAR"
      [] pos = 1 -> inOut[2].type = inOut[1].type /\ inOut[2].format = inOut[1].format
      [] OTHER -> FALSE

\* supportsFormatCombination(pos, inOut, nbInputs, nbOutputs), called by the
\* builder for each position of the plugin's inputs and outputs.
SupportsFormatCombination(i, pos, inOut) ==
    /\ call' = [NoCall EXCEPT !.op = "supportsFormatCombination", !.inst = i,
                              !.pos = pos, !.inOut = inOut,
                              !.accepted = SupportsFormat(pos, inOut),
                              !.epsBefore = instances[i].epsilon]
    /\ UNCHANGED <<instances, blobs, kvars>>

\* The epsilon argument of the launch: m_.epsilon.
EnqueueEpsilon(plugin) == plugin.epsilon

\* const int nBlock = inputDesc[0].dims.d[0] * inputDesc[0].dims.d[1]
EnqueueBlocks(dims) == dims[1] * dims[2]

\* enqueue(...): computes the grid, launches the kernel on the stream, and
\* returns 0.  Whether the launch was accepted (launchOk) is the runtime's
\* answer, which the function does not look at.
Enqueue(i, dims, launchOk) ==
    /\ call' = [NoCall EXCEPT !.op = "enqueue", !.inst = i, !.dims = dims,
                              !.nBlock = EnqueueBlocks(dims), !.launchOk = launchOk,
                              !.epsArg = EnqueueEpsilon(instances[i]), !.ret = 0]
    /\ UNCHANGED <<instances, blobs, kvars>>

\* The host calls the library one call at a time.
Idle == call.op = "none"

\* The call returns: the host has its result and may call again.
Return ==
    /\ call.op # "none"
    /\ call' = NoCall
    /\ UNCHANGED <<instances, blobs, kvars>>

\* Sizes a dimension of the input takes; the last dimension is the width,
\* which may be the kernel's (twice the thread count), smaller or larger.
DimValues == {1, 2, 2 * (2 ^ MaxLog), 4 * (2 ^ MaxLog)}

TensorDims == UNION {[1 .. r -> DimValues] : r \in 2 .. MaxRank}

\* No launch is in flight: the device part is idle.
KernelIdle ==
    /\ logThreads = MaxLog
    /\ numBlocks = 0
    /\ epsilon = Fx(0)
    /\ pInput = <<>>
    /\ pOutput = <<>>
    /\ wcount = <<>>
    /\ temp = <<>>
    /\ th = <<>>
    /\ acc = <<>>

Init == HostIdle /\ KernelIdle

Next ==
    \/ Idle /\ \E fields \in FieldLists : CreatePlugin(fields)
    \/ Idle /\ \E i \in DOMAIN instances : Serialize(i)
    \/ Idle /\ \E k \in DOMAIN blobs : DeserializePlugin(k)
    \/ Idle /\ \E i \in DOMAIN instances : Clone(i)
    \/ Idle /\ \E i \in DOMAIN instances : \E pos \in 0 .. (NbInputs + GetNbOutputs - 1) :
            \E inOut \in [1 .. (NbInputs + GetNbOutputs) -> Descs] :
                SupportsFormatCombination(i, pos, inOut)
    \/ Idle /\ \E i \in DOMAIN instances : \E dims \in TensorDims : \E launchOk \in BOOLEAN :
            Enqueue(i, dims, launchOk)
    \/ Return

Spec == Init /\ [][Next]_vars

-----------------------------------------------------------------------------
\* What the kernel is meant to compute, stated on the input alone.

\* The vector of block b.
Vec(b) == [i \in 0 .. (KWidth - 1) |-> pInput[KWidth * b + i]]

RECURSIVE SumTo(_, _)
SumTo(f, n) == IF n = 0 THEN R(0) ELSE RAdd(SumTo(f, n - 1), f[n - 1])

MeanRef(x) == RDivInt(SumTo(x, KWidth), KWidth)

VarRef(x) ==
    LET m == MeanRef(x)
    IN  RDivInt(SumTo([i \in DOMAIN x |-> RMul(RSub(x[i], m), RSub(x[i], m))], KWidth),
                KWidth)

\* The normalised vector of x, from x and eps alone.
NormRef(x, eps) ==
    LET m == MeanRef(x)
        v == VarRef(x)
    IN  [i \in DOMAIN x |-> MulRsqrt(RSub(x[i], m), RAdd(v, eps))]

IsConstant(x) == \A i \in DOMAIN x : x[i] = x[0]

BlockDone(b) == \A tx \in Threads : th[b][tx].pc = "done"
AllDone == numBlocks > 0 /\ \A b \in Blocks : BlockDone(b)

\* Every thread that finished holds the mean and variance of its block's whole
\* vector and stored (x - mean) * rsqrt(var + epsilon) for both its elements.
C1_Normalised ==
    \A b \in Blocks : \A tx \in Threads :
        th[b][tx].pc = "done" =>
            LET x == Vec(b)
                t == th[b][tx]
            IN  /\ t.mean = MeanRef(x)
                /\ t.var = VarRef(x)
                /\ pOutput[KWidth * b + tx]
                      = MulRsqrt(RSub(x[tx], MeanRef(x)), RAdd(VarRef(x), epsilon))
                /\ pOutput[KWidth * b + tx + KThreads]
                      = MulRsqrt(RSub(x[tx + KThreads], MeanRef(x)), RAdd(VarRef(x), epsilon))

\* A finished thread of a block whose vector is constant: var and its stores.
C1_ConstantCase(b, tx, expected) ==
    (th[b][tx].pc = "done" /\ IsConstant(Vec(b))) =>
        /\ th[b][tx].var = R(0)
        /\ pOutput[KWidth * b + tx] = expected
        /\ pOutput[KWidth * b + tx + KThreads] = expected

\* C1 as stated: in every interleaving every thread derives mean = sum / W and
\* var = sum of squared deviations / W of its block's vector and writes
\* (x - mean) * rsqrt(var + epsilon); a constant vector yields var = 0 and
\* every output 0.
C1_AsStated ==
    /\ C1_Normalised
    /\ \A b \in Blocks : \A tx \in Threads : C1_ConstantCase(b, tx, FZero)

\* C1 amended: the same, except that a constant vector yields every output 0
\* only when epsilon > 0; with epsilon = 0 the stores are 0 * rsqrt(0), NaN.
C1_Amended ==
    /\ C1_Normalised
    /\ \A b \in Blocks : \A tx \in Threads :
        C1_ConstantCase(b, tx, IF epsilon.v > 0 THEN FZero ELSE FNaN)

\* C1 witness: a block of the widest launch finished on a vector that is not
\* constant, and another launch finished on a constant one.
C1_Witness ==
    /\ AllDone
    /\ logThreads = MaxLog
    /\ ~IsConstant(Vec(0))
    /\ epsilon.v > 0

C1_WitnessConstant ==
    /\ AllDone
    /\ IsConstant(Vec(0))
    /\ epsilon.v > 0
    /\ pOutput[0] = FZero

\* With epsilon = 0 a constant vector is stored as NaN.
C1_WitnessNaN ==
    /\ AllDone
    /\ IsConstant(Vec(0))
    /\ epsilon.v = 0
    /\ pOutput[0] = FNaN

\* C4: between two barriers of a block no slot of temp[] is written by one
\* thread and read or written by another.
C4_NoRace ==
    \A b \in Blocks : \A s \in Slots :
        \A t1 \in acc[b][s].w : \A t2 \in acc[b][s].r \cup acc[b][s].w : t1 = t2

\* C4 witness: a thread other than thread 0 has read temp[0] for the mean and
\* for the variance, both written by thread 0 before a barrier.
C4_Witness ==
    \E b \in Blocks : \E tx \in Threads :
        /\ tx # 0
        /\ th[b][tx].pc = "done"
        /\ ~IsGarbage(th[b][tx].mean)
        /\ ~IsGarbage(th[b][tx].var)

\* The two offsets the claim gives thread t of group v: 256 v + t and
\* 256 v + t + 128.
C5_Owned(v, t) == {KWidth * v + t, KWidth * v + t + KThreads}

\* C5: thread t of group v reads and writes only its two offsets, every
\* output element is written exactly once, no group touches another group's
\* vector, and a finished group's output is the normalisation of its own
\* vector alone.
C5_IndexMapping ==
    /\ \A b \in Blocks : \A tx \in Threads :
        /\ th[b][tx].rd \subseteq C5_Owned(b, tx)
        /\ th[b][tx].wr \subseteq C5_Owned(b, tx)
        /\ th[b][tx].pc # "L26" => th[b][tx].rd = C5_Owned(b, tx)
        /\ th[b][tx].pc = "done" => th[b][tx].wr = C5_Owned(b, tx)
        /\ (th[b][tx].rd \cup th[b][tx].wr)
               \subseteq (KWidth * b) .. (KWidth * b + KWidth - 1)
    /\ \A off \in Offsets :
        /\ wcount[off] <= 1
        /\ AllDone => wcount[off] = 1
    /\ \A b \in Blocks :
        BlockDone(b) =>
            \A i \in 0 .. (KWidth - 1) :
                pOutput[KWidth * b + i] = NormRef(Vec(b), epsilon)[i]

\* C5 witness: a batch of several vectors, all groups finished.
C5_Witness == AllDone /\ numBlocks >= 2

\* Threads of one block that wait at a barrier wait at the same one, in the
\* same loop iteration.
C10_BarrierUniform ==
    \A b \in Blocks : \A t1 \in Threads : \A t2 \in Threads :
        (th[b][t1].pc \in BarrierPcs /\ th[b][t2].pc \in BarrierPcs) =>
            /\ th[b][t1].pc = th[b][t2].pc
            /\ th[b][t1].stride = th[b][t2].stride

\* The slots a reduction step touches exist.
C10_SlotsInRange ==
    \A b \in Blocks : \A tx \in Threads :
        /\ tx \in Slots
        /\ (th[b][tx].pc \in {"L33", "L47"} /\ tx < th[b][tx].stride) =>
                (tx + th[b][tx].stride) \in Slots

C10_Completed ==
    /\ AllDone
    /\ \A off \in Offsets : pOutput[off] # FUnwritten

\* C10: all threads of a block meet at the same barriers, the slot indices
\* stay inside temp[], and under fair scheduling every launched group
\* completes with all its output elements written.
C10_Terminates ==
    /\ [](C10_BarrierUniform /\ C10_SlotsInRange)
    /\ <>C10_Completed

\* C10 witness: a launch of several groups has completed.
C10_Witness == C10_Completed /\ numBlocks = MaxBlocks

-----------------------------------------------------------------------------
\* Claims about the plugin and its creator.

RECURSIVE ProductOf(_, _)
ProductOf(dims, n) == IF n = 0 THEN 1 ELSE dims[n] * ProductOf(dims, n - 1)

\* The number of feature vectors: the product of all dimensions but the last.
LeadingProduct(dims) == ProductOf(dims, Len(dims) - 1)
NumElements(dims) == ProductOf(dims, Len(dims))
FeatureWidth(dims) == dims[Len(dims)]

\* C2: on every enqueue call the grid has one group per feature vector, the
\* product of all leading dimensions of the input, whatever its rank.
C2_OneGroupPerVector ==
    call.op = "enqueue" => call.nBlock = LeadingProduct(call.dims)

\* C3: when the launch issued by enqueue fails, enqueue returns a non-zero
\* status; it returns 0 only when the launch was enqueued.
C3_LaunchFailureSurfaced ==
    call.op = "enqueue" => (call.ret = 0 <=> call.launchOk)

\* The global offsets the grid of the last enqueue touches.
LaunchedOffsets ==
    UNION {{Index(b, tx), Index1(b, tx)} : b \in 0 .. (call.nBlock - 1), tx \in Threads}

\* C9: an enqueue on a tensor whose width is not the kernel's still launches
\* and returns 0, and no thread of the grid reads or writes an offset outside
\* the tensor.
C9_WrongWidthStaysInside ==
    (call.op = "enqueue" /\ FeatureWidth(call.dims) # KWidth) =>
        /\ call.ret = 0
        /\ LaunchedOffsets \subseteq 0 .. (NumElements(call.dims) - 1)

\* The answer the claim gives for position pos of the candidates inOut.
C6_Accepts(pos, inOut) ==
    IF pos = 0
    THEN inOut[1] = [type |-> "kFLOAT", format |-> "kLINEAR"]
    ELSE inOut[pos + 1] = inOut[1]

\* C6: supportsFormatCombination accepts position 0 exactly for float in
\* linear layout and a later position exactly when its type and format are
\* those of position 0; so an output type other than the input's is
\* rejected, float/linear for both is accepted, and the answer is a function
\* of pos and the descriptors that leaves the plugin as it was.
C6_FormatNegotiation ==
    call.op = "supportsFormatCombination" =>
        /\ call.accepted = C6_Accepts(call.pos, call.inOut)
        /\ (call.pos = 1 /\ call.inOut[2].type # call.inOut[1].type) => ~call.accepted
        /\ (\A k \in DOMAIN call.inOut :
                call.inOut[k] = [type |-> "kFLOAT", format |-> "kLINEAR"]) => call.accepted
        /\ instances[call.inst].epsilon = call.epsBefore

\* C6 witness: an output position was probed and rejected for its type.
C6_Witness ==
    /\ call.op = "supportsFormatCombination"
    /\ call.pos = 1
    /\ call.inOut[1] = [type |-> "kFLOAT", format |-> "kLINEAR"]
    /\ call.inOut[2].type = "kHALF"
    /\ ~call.accepted

\* C7: serialize writes exactly getSerializationSize() = sizeof(m_) bytes,
\* the bytes of epsilon, and leaves the plugin unchanged; deserializePlugin
\* on those bytes yields a plugin with the same epsilon bits, which therefore
\* passes the same epsilon to the kernel.
C7_RoundTrip ==
    /\ call.op = "serialize" =>
        /\ Len(blobs[call.blob].bytes) = GetSerializationSize
        /\ GetSerializationSize = SizeofM
        /\ blobs[call.blob].bytes = BytesOfFloat(instances[call.inst].epsilon)
        /\ instances[call.inst].epsilon = call.epsBefore
    /\ call.op = "deserializePlugin" =>
        /\ instances[call.inst].epsilon = instances[blobs[call.blob].by].epsilon
        /\ EnqueueEpsilon(instances[call.inst])
              = EnqueueEpsilon(instances[blobs[call.blob].by])

\* C7 witness: a plugin whose epsilon is not the default was serialized and
\* a plugin was made from the buffer.
C7_Witness ==
    /\ call.op = "deserializePlugin"
    /\ instances[call.inst].epsilon = 1065353216
    /\ call.inst # blobs[call.blob].by

\* The fields of a collection that are named "epsilon".
C8_EpsilonFields(fields) == SelectSeq(fields, LAMBDA f : f.name = "epsilon")

\* C8: createPlugin yields epsilon 1.0e-5 when no field is named "epsilon"
\* and the value of the supplied "epsilon" field otherwise (of the last one,
\* should several be supplied); fields of other names change nothing.
C8_CreateFromFields ==
    call.op = "createPlugin" =>
        LET fs == C8_EpsilonFields(call.fields)
            e  == instances[call.inst].epsilon
        IN  /\ fs = <<>> => e = DefaultEpsilonBits
            /\ fs # <<>> => e = FloatOfBytes(fs[Len(fs)].data)
            /\ e = CreateEpsilon(fs, 1, DefaultEpsilonBits)

\* C8 witness: a collection with an "epsilon" field and a field of another
\* name after it, with a different value.
C8_Witness ==
    /\ call.op = "createPlugin"
    /\ Len(call.fields) = 2
    /\ call.fields[1].name = "epsilon"
    /\ call.fields[2].name = "gamma"
    /\ call.fields[1].data # call.fields[2].data
    /\ instances[call.inst].epsilon = FloatOfBytes(call.fields[1].data)

\* C8 witness for the default: only fields of other names were supplied.
C8_WitnessDefault ==
    /\ call.op = "createPlugin"
    /\ call.fields # <<>>
    /\ C8_EpsilonFields(call.fields) = <<>>
    /\ instances[call.inst].epsilon = DefaultEpsilonBits

====
